---- MODULE Spec2Model ----
(***************************************************************************)
(* md2smf: Markdown manuscript -> Standard Manuscript Format (RTF).        *)
(*                                                                         *)
(* A Python str is modelled as a sequence of elements.  Every character of *)
(* a manuscript line is one element (a one-character string).  The fixed   *)
(* pieces of the RTF templates of rtf_builder.py are carried as one        *)
(* element each: a placeholder such as __HEAD__ is one element, and so is  *)
(* each stretch of template text between two placeholders.  str.replace is *)
(* modelled on these sequences (leftmost, non-overlapping occurrences).    *)
(***************************************************************************)
EXTENDS Integers, Sequences, FiniteSets, TLC

VARIABLES
    pc,             \* position of the running call
    lines,          \* MdParser.lines: the queue of lines still to parse
    doc,            \* MdParser.doc: the RtfDocument ([document, font])
    monospace,      \* MdParser.monospace
    name_chapters,  \* MdParser.name_chapters
    name_parts,     \* MdParser.name_parts
    part_count,     \* MdParser.part_count
    chapter_count,  \* MdParser.chapter_count
    new_division,   \* local of MdParser.parse
    already_broken, \* local of MdParser.parse_heading
    level,          \* local of MdParser.parse_heading
    hide,           \* parameter of MdParser.parse_section
    normal_lines,   \* local of MdParser.parse_normal
    trace,          \* history: the add_lines calls and queue pops, in order
    error,          \* the exception that ended the call, <<>> if none
    FAKE_HEAD,      \* the module-level list FAKE_HEAD of md2smf.py
    md_document,    \* argument of convert_to_smf, as its splitlines()
    head_file,      \* argument of convert_to_smf: None, or the file's lines
    results,        \* what each finished call gave its caller
    sr_line,        \* local line of smart_replace
    sr_index,       \* local index of smart_replace
    sr_italics_on   \* local italics_on of smart_replace

vars == <<pc, lines, doc, monospace, name_chapters, name_parts, part_count,
          chapter_count, new_division, already_broken, level, hide,
          normal_lines, trace, error, FAKE_HEAD, md_document, head_file, results,
          sr_line, sr_index, sr_italics_on>>

\* the locals of a running smart_replace
scan_vars == <<sr_line, sr_index, sr_italics_on>>

\* the variables of the caller of MdParser and RtfDocument
caller_vars == <<FAKE_HEAD, md_document, head_file, results>>

----------------------------------------------------------------------------
(* Bounds of the model.                                                    *)

\* longest line list handed to MdParser
MaxLines == 3
\* longest line handed to heading_level on its own
MaxLineLen == 6
\* most add_lines calls made on one RtfDocument by a direct caller
MaxCalls == 2
\* longest manuscript body handed to convert_to_smf, in raw lines after
\* the first HeaderLines
MaxBodyLines == 2
\* most convert_to_smf calls made in one process
MaxRuns == 2
\* longest line handed to smart_replace on its own
MaxSmartLen == 4
\* most dump calls made on one RtfDocument
MaxDumps == 2
\* longest line handed to smart_replace run step by step
MaxScanLen == 3

----------------------------------------------------------------------------
(* Python built-ins on str and int.                                        *)

\* what heading_level yields when line[i] raises IndexError
IndexError == -1

\* the exceptions of a failed subscript, as the run ends with them
StringIndexError == <<"IndexError", "string index out of range">>
ListIndexError == <<"IndexError", "list index out of range">>

Whitespace == {" ", "\t", "\n"}

AlnumChars ==
    {"a", "b", "c", "d", "e", "f", "g", "h", "i", "j", "k", "l", "m", "n",
     "o", "p", "q", "r", "s", "t", "u", "v", "w", "x", "y", "z",
     "A", "B", "C", "D", "E", "F", "G", "H", "I", "J", "K", "L", "M", "N",
     "O", "P", "Q", "R", "S", "T", "U", "V", "W", "X", "Y", "Z",
     "0", "1", "2", "3", "4", "5", "6", "7", "8", "9"}

isalnum(c) == c \in AlnumChars

Min(S) == CHOOSE x \in S : \A y \in S : x <= y

\* s[n:]
DropFirst(s, n) == IF n >= Len(s) THEN <<>> ELSE SubSeq(s, n + 1, Len(s))

\* str.replace(old, new): every leftmost non-overlapping occurrence
RECURSIVE replace(_, _, _)
replace(s, old, new) ==
    LET n == Len(old)
        hits == {i \in 1..(Len(s) - n + 1) : SubSeq(s, i, i + n - 1) = old}
    IN  IF hits = {} THEN s
        ELSE LET i == Min(hits)
             IN  SubSeq(s, 1, i - 1) \o new \o replace(DropFirst(s, i + n - 1), old, new)

\* str.strip()
RECURSIVE lstrip(_)
lstrip(s) == IF s # <<>> /\ Head(s) \in Whitespace THEN lstrip(Tail(s)) ELSE s

RECURSIVE rstrip(_)
rstrip(s) ==
    IF s # <<>> /\ s[Len(s)] \in Whitespace THEN rstrip(SubSeq(s, 1, Len(s) - 1)) ELSE s

strip(s) == rstrip(lstrip(s))

Digit(d) == <<"0", "1", "2", "3", "4", "5", "6", "7", "8", "9">>[d + 1]

\* str(n) for n >= 0, as the f-strings format the counters
RECURSIVE str(_)
str(n) == IF n < 10 THEN <<Digit(n)>> ELSE str(n \div 10) \o <<Digit(n % 10)>>

----------------------------------------------------------------------------
(* md2smf.py: text transform utilities.                                    *)

SINGLE_LEFT_QUOTE == <<"\\", "l", "q", "u", "o", "t", "e", " ">>
SINGLE_RIGHT_QUOTE == <<"\\", "r", "q", "u", "o", "t", "e", " ">>
DOUBLE_LEFT_QUOTE == <<"\\", "l", "d", "b", "l", "q", "u", "o", "t", "e", " ">>
DOUBLE_RIGHT_QUOTE == <<"\\", "r", "d", "b", "l", "q", "u", "o", "t", "e", " ">>
EM_DASH == <<"\\", "e", "m", "d", "a", "s", "h", " ">>
ITALICS_ON == <<"\\", "i", " ">>
ITALICS_OFF == <<"\\", "i", "0", " ">>

\* the marker-scan window: range(4)
ScanWindow == 4

\* for i in range(4): if line[i] != '#': return i  /  return 3
RECURSIVE heading_scan(_, _)
heading_scan(line, i) ==
    IF i = ScanWindow THEN 3
    ELSE IF i >= Len(line) THEN IndexError
    ELSE IF line[i + 1] # "#" THEN i
    ELSE heading_scan(line, i + 1)

\* a scan that returns the loop index after the loop instead of 3
RECURSIVE heading_scan_uncapped(_, _)
heading_scan_uncapped(line, i) ==
    IF i = ScanWindow THEN i
    ELSE IF i >= Len(line) THEN IndexError
    ELSE IF line[i + 1] # "#" THEN i
    ELSE heading_scan_uncapped(line, i + 1)

heading_level_uncapped(line) == heading_scan_uncapped(line, 0)

heading_level(line) == heading_scan(line, 0)

char_weight(string, index) ==
    IF index < 0 \/ index >= Len(string) THEN 0
    ELSE IF string[index + 1] = " " THEN 0
    ELSE IF isalnum(string[index + 1]) THEN 2
    ELSE 1

substitute(string, index, sub) ==
    SubSeq(string, 1, index) \o sub \o DropFirst(string, index + 1)

\* the while loop of smart_replace, from the state (line, index, italics_on)
RECURSIVE smart_scan(_, _, _)
smart_scan(line, index, italics_on) ==
    IF ~(index < Len(line))
    THEN IF italics_on THEN line \o ITALICS_OFF ELSE line
    ELSE LET c == line[index + 1]
             opening == char_weight(line, index - 1) < char_weight(line, index + 1)
         IN  IF c = "'"
             THEN IF opening
                  THEN smart_scan(substitute(line, index, SINGLE_LEFT_QUOTE),
                                  index + Len(SINGLE_LEFT_QUOTE), italics_on)
                  ELSE smart_scan(substitute(line, index, SINGLE_RIGHT_QUOTE),
                                  index + Len(SINGLE_RIGHT_QUOTE), italics_on)
             ELSE IF c = "\""
             THEN IF opening
                  THEN smart_scan(substitute(line, index, DOUBLE_LEFT_QUOTE),
                                  index + Len(DOUBLE_LEFT_QUOTE), italics_on)
                  ELSE smart_scan(substitute(line, index, DOUBLE_RIGHT_QUOTE),
                                  index + Len(DOUBLE_RIGHT_QUOTE), italics_on)
             ELSE IF c = "*"
             THEN IF italics_on
                  THEN smart_scan(substitute(line, index, ITALICS_OFF),
                                  index + Len(ITALICS_OFF), ~italics_on)
                  ELSE smart_scan(substitute(line, index, ITALICS_ON),
                                  index + Len(ITALICS_ON), ~italics_on)
             ELSE smart_scan(line, index + 1, italics_on)

\* a scan that starts with italics on
smart_replace_italics_open(line) ==
    LET l1 == replace(line, <<"-", "-">>, EM_DASH)
        l2 == replace(l1, <<" ", " ">>, <<" ">>)
        l3 == replace(l2, <<" ", " ">>, <<" ">>)
    IN  smart_scan(l3, 0, TRUE)

smart_replace(line) ==
    LET l1 == replace(line, <<"-", "-">>, EM_DASH)
        l2 == replace(l1, <<" ", " ">>, <<" ">>)
        l3 == replace(l2, <<" ", " ">>, <<" ">>)
    IN  smart_scan(l3, 0, FALSE)

----------------------------------------------------------------------------
(* rtf_builder.py: the RTF templates, one element per placeholder and per  *)
(* stretch of text between placeholders.                                   *)

TEMPLATE ==
    <<"{\\rtf1\\ansi ... {\\stylesheet", "__STYLESHEET__", "} ... \\pgbrdrfoot\\sectd",
      "__TITLEPG__", "\\sectlinegrid360 ... \\ltrsect\n", "__HEAD__",
      "\n{\\*\\latentstyles ... }}}">>

TIMES_STYLESHEET == <<"{\\s0 ... \\f0 ... Normal;} ... Subtitle;}">>

COURIER_STYLESHEET == <<"{\\s0 ... \\f3 ... Normal;} ... Subtitle;}">>

HEADER ==
    <<"{\\", "__HEADERTYPE__", "\\pard\\plain ... \\s4 ... \\qr ... \\a", "__FONT__",
      "\\afs24\\ltrch\\b0\\i0\\fs24\\", "__FONT__", "\\strike0\\ulnone\\cf1{",
      "__TEXT__", "}}">>

NORMAL_STYLE ==
    <<"\\pard\\plain\\itap0\\s0", "__PAGEBR__", "\\ilvl0\\tqr\\tx9360\\fi", "__INDENT__",
      "\\sb0\\sa0 ... \\ql\\faauto\\sl", "__SPACING__", "\\slmult1 ... \\a", "__FONT__",
      "\\afs24\\ltrch\\b0\\i0\\fs24\\", "__FONT__", "\n\\strike0\\ulnone\\cf1">>

HEADING_STYLE ==
    <<"\\pard\\plain\\itap0\\", "__STYLE__", "__PAGEBR__", "\\keep\\keepn ... \\qc\\faauto\\sl",
      "__SPACING__", "\\slmult1 ... \\a", "__FONT__", "\\afs24\\ltrch\\b0\\i0\\fs24\\",
      "__FONT__", "\\strike0\n\\ulnone\\cf1">>

\* the value None of an optional str argument
None == <<"None">>

----------------------------------------------------------------------------
(* rtf_builder.py: class RtfDocument, as a record [document, font].        *)

insert_rtf(self, new_content) ==
    [self EXCEPT !.document =
        replace(self.document, <<"__HEAD__">>, new_content \o <<"\n", "__HEAD__">>)]

new_header(self, text, first_page) ==
    LET text1 == replace(text, <<"_P#_">>, <<"{\\field{\\*\\fldinst{PAGE}}{\\fldrslt}}">>)
        out1 == replace(HEADER, <<"__TEXT__">>, text1)
        out2 == replace(out1, <<"__FONT__">>, <<self.font>>)
    IN  IF first_page
        THEN replace(out2, <<"__HEADERTYPE__">>, <<"headerf">>)
        ELSE replace(out2, <<"__HEADERTYPE__">>, <<"header">>)

RtfDocument(mono, header_text, first_header_text) ==
    LET d0 == IF mono
              THEN [document |-> replace(TEMPLATE, <<"__STYLESHEET__">>, COURIER_STYLESHEET),
                    font |-> "f3"]
              ELSE [document |-> replace(TEMPLATE, <<"__STYLESHEET__">>, TIMES_STYLESHEET),
                    font |-> "f0"]
        d1 == IF header_text # None
              THEN insert_rtf(d0, new_header(d0, header_text, FALSE))
              ELSE d0
    IN  IF first_header_text # None
        THEN LET d2 == insert_rtf(d1, new_header(d1, first_header_text, TRUE))
             IN  [d2 EXCEPT !.document = replace(d2.document, <<"__TITLEPG__">>, <<"\\titlepg">>)]
        ELSE [d1 EXCEPT !.document = replace(d1.document, <<"__TITLEPG__">>, <<>>)]

\* the style codes add_lines knows besides "normal"
scode(style) ==
    CASE style = "h1" -> "s1"
      [] style = "h2" -> "s2"
      [] style = "centered" -> "s3"
      [] style = "title" -> "s15"
      [] style = "subtitle" -> "s16"

\* the paragraph text of one line: newline and tab translated, then wrapped
paragraph(line) ==
    LET l1 == replace(line, <<"\n">>, <<" \\par ">>)
        l2 == replace(l1, <<"\t">>, <<" \\tab ">>)
    IN  <<"{">> \o l2 \o <<" \\par}">>

\* for line in ls: self.insert_rtf("{" + line + " \par}")
RECURSIVE insert_paragraphs(_, _)
insert_paragraphs(self, ls) ==
    IF ls = <<>> THEN self
    ELSE insert_paragraphs(insert_rtf(self, paragraph(Head(ls))), Tail(ls))

\* lines 75-96 of add_lines: the style text, __PAGEBR__ still in it
styling_of(self, style, indent, double_space) ==
    LET s1 == IF style = "normal"
              THEN IF indent
                   THEN replace(NORMAL_STYLE, <<"__INDENT__">>, <<"720">>)
                   ELSE replace(NORMAL_STYLE, <<"__INDENT__">>, <<"0">>)
              ELSE replace(HEADING_STYLE, <<"__STYLE__">>, <<scode(style)>>)
        s2 == IF double_space
              THEN replace(s1, <<"__SPACING__">>, <<"480">>)
              ELSE replace(s1, <<"__SPACING__">>, <<"240">>)
    IN  replace(s2, <<"__FONT__">>, <<self.font>>)

\* lines[0] of an empty list raises after the first insert_rtf
add_lines_raises(ls, new_page) == new_page /\ ls = <<>>

\* add_lines whose second style keeps the page break
add_lines_break_kept(self, ls, style, indent, double_space, new_page) ==
    LET styling == styling_of(self, style, indent, double_space)
    IN  IF new_page
        THEN LET st == replace(styling, <<"__PAGEBR__">>, <<"\\pagebb">>)
                 d1 == insert_rtf(self, st)
             IN  IF ls = <<>> THEN d1
                 ELSE LET d2 == insert_rtf(d1, paragraph(ls[1]))
                          d3 == insert_rtf(d2, st)
                      IN  insert_paragraphs(d3, Tail(ls))
        ELSE LET st == replace(styling, <<"__PAGEBR__">>, <<>>)
             IN  insert_paragraphs(insert_rtf(self, st), ls)

add_lines(self, ls, style, indent, double_space, new_page) ==
    LET styling == styling_of(self, style, indent, double_space)
    IN  IF new_page
        THEN LET st == replace(styling, <<"__PAGEBR__">>, <<"\\pagebb">>)
                 d1 == insert_rtf(self, st)
             IN  IF ls = <<>> THEN d1
                 ELSE LET d2 == insert_rtf(d1, paragraph(ls[1]))
                          d3 == insert_rtf(d2, replace(st, <<"\\pagebb">>, <<>>))
                      IN  insert_paragraphs(d3, Tail(ls))
        ELSE LET st == replace(styling, <<"__PAGEBR__">>, <<>>)
             IN  insert_paragraphs(insert_rtf(self, st), ls)

dump(self) == replace(self.document, <<"__HEAD__">>, <<>>)

----------------------------------------------------------------------------
(* The inputs of the model.                                                *)

Hashes(k) == [i \in 1..k |-> "#"]

\* what may follow the leading '#' of a generated line
Tails == {<<>>, <<" ", "a">>}

\* non-empty lines: up to ScanWindow leading '#', then a tail
ParserLines == {Hashes(k) \o t : k \in 0..ScanWindow, t \in Tails} \ {<<>>}

LineLists == UNION {[1..n -> ParserLines] : n \in 0..MaxLines}

----------------------------------------------------------------------------
(* History of a run: every add_lines call and every self.lines.pop(0).     *)

AddEv(by, ls, style, indent, double_space, new_page) ==
    [op |-> "add_lines", by |-> by, ls |-> ls, style |-> style, indent |-> indent,
     double_space |-> double_space, new_page |-> new_page]

PopEv(by, line) ==
    [op |-> "pop", by |-> by, ls |-> <<line>>, style |-> "", indent |-> TRUE,
     double_space |-> TRUE, new_page |-> FALSE]

----------------------------------------------------------------------------
(* md2smf.py: module state.                                                *)

\* the list FAKE_HEAD as the module defines it; each line's text is carried
\* as one element
FAKE_HEAD_literal ==
    << <<"Your Name">>, <<"Address Line 1">>, <<"Address Line 2">>,
       <<"Address Line 3">>, <<"City, ST Zip">>, <<"email@example.com">>,
       <<"(555) 555 - 5555">> >>

\* the module freshly imported, convert_to_smf not called
NoCaller ==
    /\ FAKE_HEAD = FAKE_HEAD_literal
    /\ md_document = <<>>
    /\ head_file = None
    /\ results = <<>>

----------------------------------------------------------------------------
(* md2smf.py: class MdParser.                                              *)

\* MdParser.__init__ on a fresh RtfDocument, parse() not yet entered
Init ==
    /\ pc = "start"
    /\ lines \in LineLists
    /\ monospace \in BOOLEAN
    /\ name_chapters \in BOOLEAN
    /\ name_parts \in BOOLEAN
    /\ doc = RtfDocument(monospace, None, None)
    /\ part_count = 0
    /\ chapter_count = 0
    /\ new_division = FALSE
    /\ already_broken = FALSE
    /\ level = 0
    /\ hide = FALSE
    /\ normal_lines = <<>>
    /\ trace = <<>>
    /\ error = <<>>
    /\ sr_line = <<>>
    /\ sr_index = 0
    /\ sr_italics_on = FALSE
    /\ NoCaller

\* parse(): new_division = True, then the while loop
parse_enter ==
    /\ pc = "start"
    /\ pc' = "parse"
    /\ new_division' = TRUE
    /\ UNCHANGED <<scan_vars, caller_vars, lines, doc, monospace, name_chapters, name_parts, part_count,
                   chapter_count, already_broken, level, hide, normal_lines, trace, error>>

\* while self.lines: false -> return self.doc
parse_return ==
    /\ pc = "parse"
    /\ lines = <<>>
    /\ pc' = "returned"
    /\ UNCHANGED <<scan_vars, caller_vars, lines, doc, monospace, name_chapters, name_parts, part_count,
                   chapter_count, new_division, already_broken, level, hide,
                   normal_lines, trace, error>>

\* new_level = heading_level(self.lines[0]) raises
parse_raise ==
    /\ pc = "parse"
    /\ lines # <<>>
    /\ heading_level(lines[1]) = IndexError
    /\ pc' = "raised"
    /\ error' = StringIndexError
    /\ UNCHANGED <<scan_vars, caller_vars, lines, doc, monospace, name_chapters, name_parts, part_count,
                   chapter_count, new_division, already_broken, level, hide,
                   normal_lines, trace>>

\* new_level in (1, 2): enter parse_heading (its lines 129-130)
parse_call_heading ==
    /\ pc = "parse"
    /\ lines # <<>>
    /\ heading_level(lines[1]) \in {1, 2}
    /\ pc' = "parse_heading"
    /\ already_broken' = FALSE
    /\ level' = heading_level(lines[1])
    /\ UNCHANGED <<scan_vars, caller_vars, lines, doc, monospace, name_chapters, name_parts, part_count,
                   chapter_count, new_division, hide, normal_lines, trace, error>>

\* a parse_section call that leaves the hide argument at its default
section_hide_default(nd) == FALSE

\* the argument of self.parse_section(hide=new_division)
section_hide(nd) == nd

\* new_level == 3: enter parse_section(hide=new_division)
parse_call_section ==
    /\ pc = "parse"
    /\ lines # <<>>
    /\ heading_level(lines[1]) = 3
    /\ pc' = "parse_section"
    /\ hide' = section_hide(new_division)
    /\ UNCHANGED <<scan_vars, caller_vars, lines, doc, monospace, name_chapters, name_parts, part_count,
                   chapter_count, new_division, already_broken, level,
                   normal_lines, trace, error>>

\* otherwise: enter parse_normal (its line 162)
parse_call_normal ==
    /\ pc = "parse"
    /\ lines # <<>>
    /\ heading_level(lines[1]) = 0
    /\ pc' = "parse_normal"
    /\ normal_lines' = <<>>
    /\ UNCHANGED <<scan_vars, caller_vars, lines, doc, monospace, name_chapters, name_parts, part_count,
                   chapter_count, new_division, already_broken, level, hide, trace, error>>

\* blanks = [''] if already_broken else [''] * 8
heading_blanks(broken) == IF broken THEN << <<>> >> ELSE [i \in 1..8 |-> <<>>]

\* a page break before every heading line, the flag ignored
heading_new_page_always(broken) == TRUE

\* new_page=not already_broken
heading_new_page(broken) == ~broken

\* a heading label built from the counter before its increment
heading_text_stale(lvl, n, named, line) ==
    (IF lvl = 1 THEN <<"P", "a", "r", "t", " ">>
                ELSE <<"C", "h", "a", "p", "t", "e", "r", " ">>)
    \o str(n - 1) \o (IF named THEN <<":", " ">> \o line ELSE <<>>)

\* a heading label that shows the name when either flag is set
heading_text_either_flag(lvl, n, named, line) ==
    (IF lvl = 1 THEN <<"P", "a", "r", "t", " ">>
                ELSE <<"C", "h", "a", "p", "t", "e", "r", " ">>)
    \o str(n) \o (IF name_parts \/ name_chapters THEN <<":", " ">> \o line ELSE <<>>)

\* f'Part {n}' / f'Chapter {n}', with f': {line}' when the name is shown
heading_text(lvl, n, named, line) ==
    (IF lvl = 1 THEN <<"P", "a", "r", "t", " ">>
                ELSE <<"C", "h", "a", "p", "t", "e", "r", " ">>)
    \o str(n) \o (IF named THEN <<":", " ">> \o line ELSE <<>>)

\* style=f'h{level}'
heading_style(lvl) == IF lvl = 1 THEN "h1" ELSE "h2"

\* one pass of the while loop of parse_heading (lines 132-149)
parse_heading_line ==
    /\ pc = "parse_heading"
    /\ lines # <<>>
    /\ level \in {1, 2}
    /\ LET line == strip(DropFirst(lines[1], level))
           blanks == heading_blanks(already_broken)
           new_page == heading_new_page(already_broken)
           n == IF level = 1 THEN part_count + 1 ELSE chapter_count + 1
           named == IF level = 1 THEN name_parts ELSE name_chapters
           text == heading_text(level, n, named, line)
           d1 == add_lines(doc, blanks, "normal", TRUE, TRUE, new_page)
           d2 == add_lines(d1, <<text>>, heading_style(level), TRUE, TRUE, FALSE)
           d3 == add_lines(d2, << <<>> >>, "normal", TRUE, TRUE, FALSE)
           rest == Tail(lines)
       IN  /\ doc' = d3
           /\ already_broken' = TRUE
           /\ part_count' = IF level = 1 THEN n ELSE part_count
           /\ chapter_count' = IF level = 2 THEN n ELSE chapter_count
           /\ lines' = rest
           /\ trace' = trace \o <<AddEv("parse_heading", blanks, "normal", TRUE, TRUE, new_page),
                                  AddEv("parse_heading", <<text>>, heading_style(level), TRUE, TRUE, FALSE),
                                  AddEv("parse_heading", << <<>> >>, "normal", TRUE, TRUE, FALSE),
                                  PopEv("parse_heading", lines[1])>>
           \* level = heading_level(self.lines[0]), on the popped queue
           /\ IF rest = <<>>
              THEN pc' = "raised" /\ error' = ListIndexError /\ level' = level
              ELSE IF heading_level(rest[1]) = IndexError
              THEN pc' = "raised" /\ error' = StringIndexError /\ level' = level
              ELSE pc' = pc /\ error' = error /\ level' = heading_level(rest[1])
    /\ UNCHANGED <<scan_vars, caller_vars, monospace, name_chapters, name_parts, new_division, hide, normal_lines>>

\* the while test of parse_heading fails: back in parse, new_division = True
parse_heading_return ==
    /\ pc = "parse_heading"
    /\ ~(lines # <<>> /\ level \in {1, 2})
    /\ pc' = "parse"
    /\ new_division' = TRUE
    /\ UNCHANGED <<scan_vars, caller_vars, lines, doc, monospace, name_chapters, name_parts, part_count,
                   chapter_count, already_broken, level, hide, normal_lines, trace, error>>

\* the while test of parse_section raises in heading_level
parse_section_raise ==
    /\ pc = "parse_section"
    /\ lines # <<>>
    /\ heading_level(lines[1]) = IndexError
    /\ pc' = "raised"
    /\ error' = StringIndexError
    /\ UNCHANGED <<scan_vars, caller_vars, lines, doc, monospace, name_chapters, name_parts, part_count,
                   chapter_count, new_division, already_broken, level, hide,
                   normal_lines, trace>>

\* one pass of the while loop of parse_section (lines 155-157)
parse_section_line ==
    /\ pc = "parse_section"
    /\ lines # <<>>
    /\ heading_level(lines[1]) = 3
    /\ IF ~hide
       THEN /\ doc' = add_lines(doc, << <<"#">> >>, "centered", TRUE, TRUE, FALSE)
            /\ trace' = trace \o <<AddEv("parse_section", << <<"#">> >>, "centered", TRUE, TRUE, FALSE),
                                   PopEv("parse_section", lines[1])>>
       ELSE /\ doc' = doc
            /\ trace' = trace \o <<PopEv("parse_section", lines[1])>>
    /\ lines' = Tail(lines)
    /\ UNCHANGED <<scan_vars, caller_vars, pc, monospace, name_chapters, name_parts, part_count, chapter_count,
                   new_division, already_broken, level, hide, normal_lines, error>>

\* the while test of parse_section fails: back in parse
parse_section_return ==
    /\ pc = "parse_section"
    /\ \/ lines = <<>>
       \/ /\ lines # <<>>
          /\ heading_level(lines[1]) \notin {3, IndexError}
    /\ pc' = "parse"
    /\ UNCHANGED <<scan_vars, caller_vars, lines, doc, monospace, name_chapters, name_parts, part_count,
                   chapter_count, new_division, already_broken, level, hide,
                   normal_lines, trace, error>>

\* the while test of parse_normal raises in heading_level
parse_normal_raise ==
    /\ pc = "parse_normal"
    /\ lines # <<>>
    /\ heading_level(lines[1]) = IndexError
    /\ pc' = "raised"
    /\ error' = StringIndexError
    /\ UNCHANGED <<scan_vars, caller_vars, lines, doc, monospace, name_chapters, name_parts, part_count,
                   chapter_count, new_division, already_broken, level, hide,
                   normal_lines, trace>>

\* one pass of the while loop of parse_normal (lines 164-168)
parse_normal_line ==
    /\ pc = "parse_normal"
    /\ lines # <<>>
    /\ heading_level(lines[1]) = 0
    /\ normal_lines' = Append(normal_lines,
                              IF monospace THEN lines[1] ELSE smart_replace(lines[1]))
    /\ lines' = Tail(lines)
    /\ trace' = trace \o <<PopEv("parse_normal", lines[1])>>
    /\ UNCHANGED <<scan_vars, caller_vars, pc, doc, monospace, name_chapters, name_parts, part_count,
                   chapter_count, new_division, already_broken, level, hide, error>>

\* the while test of parse_normal fails: add the block; back in parse,
\* new_division = False
parse_normal_return ==
    /\ pc = "parse_normal"
    /\ \/ lines = <<>>
       \/ /\ lines # <<>>
          /\ heading_level(lines[1]) \notin {0, IndexError}
    /\ doc' = add_lines(doc, normal_lines, "normal", TRUE, TRUE, FALSE)
    /\ trace' = trace \o <<AddEv("parse_normal", normal_lines, "normal", TRUE, TRUE, FALSE)>>
    /\ pc' = "parse"
    /\ new_division' = FALSE
    /\ UNCHANGED <<scan_vars, caller_vars, lines, monospace, name_chapters, name_parts, part_count,
                   chapter_count, already_broken, level, hide, normal_lines, error>>

Next ==
    \/ parse_enter
    \/ parse_return
    \/ parse_raise
    \/ parse_call_heading
    \/ parse_call_section
    \/ parse_call_normal
    \/ parse_heading_line
    \/ parse_heading_return
    \/ parse_section_raise
    \/ parse_section_line
    \/ parse_section_return
    \/ parse_normal_raise
    \/ parse_normal_line
    \/ parse_normal_return

Spec == Init /\ [][Next]_vars

----------------------------------------------------------------------------
(* Vocabulary of the properties, read off the input text and the history.  *)

\* the number of leading '#' of a line
RECURSIVE LeadingHashes(_)
LeadingHashes(line) ==
    IF line # <<>> /\ Head(line) = "#" THEN 1 + LeadingHashes(Tail(line)) ELSE 0

Count(s, e) == Cardinality({i \in DOMAIN s : s[i] = e})

Pops == {i \in DOMAIN trace : trace[i].op = "pop"}

PoppedLine(i) == trace[i].ls[1]

\* the pops of lines with exactly k leading '#'
PopsOfLevel(k) == {i \in Pops : LeadingHashes(PoppedLine(i)) = k}

HeadingPops == PopsOfLevel(1) \cup PopsOfLevel(2)

SectionPops == {i \in Pops : LeadingHashes(PoppedLine(i)) >= 3}

\* a body line was consumed before event i and no heading line since
BodySince(i) ==
    \E j \in 1..(i - 1) :
        /\ j \in PopsOfLevel(0)
        /\ \A k \in j..i : k \notin HeadingPops

\* the event right before pop i is the add_lines call of a centered marker
MarkerAt(i) ==
    /\ i > 1
    /\ trace[i - 1] = AddEv("parse_section", << <<"#">> >>, "centered", TRUE, TRUE, FALSE)

CenteredCalls ==
    {i \in DOMAIN trace : trace[i].op = "add_lines" /\ trace[i].style = "centered"}

----------------------------------------------------------------------------
(* C1: a consumed section-break line (three or more leading '#') adds a    *)
(* centered marker paragraph if and only if a body line has been consumed  *)
(* since the most recent Part/Chapter heading line (or since parse start); *)
(* the markers in the document are exactly those: one per such line.       *)
C1_SectionMarkerIffBodySince ==
    /\ \A i \in SectionPops : MarkerAt(i) <=> BodySince(i)
    /\ Cardinality(CenteredCalls) = Cardinality({i \in SectionPops : BodySince(i)})
    /\ Count(doc.document, "s3") = Cardinality(CenteredCalls)

\* a finished run that hid one section break and showed a later one
C1_Witness ==
    /\ pc = "returned"
    /\ \E i, j \in SectionPops : i < j /\ ~MarkerAt(i) /\ MarkerAt(j)
    /\ Count(doc.document, "s3") = 1

----------------------------------------------------------------------------
(* C2: on a list of non-empty lines the run never fails on an empty queue: *)
(* once the queue is empty no routine reads its front, so the run is not   *)
(* ended by the IndexError of self.lines[0].                               *)
C2_NoReadOfEmptyQueue == ~(lines = <<>> /\ pc = "raised")

----------------------------------------------------------------------------
(* C3 as stated: every heading line consumed by parse_heading has its own  *)
(* add_lines call with new_page=True right before its heading paragraph,   *)
(* so the document holds one page break per heading line.                  *)
C3_PageBreakPerHeadingLine ==
    /\ \A i \in HeadingPops :
          /\ i > 3
          /\ trace[i - 3].op = "add_lines"
          /\ trace[i - 3].new_page
    /\ Count(doc.document, "\\pagebb") = Cardinality(HeadingPops)

\* the first heading line of a run: no heading line was consumed right before
FirstOfRun(i) == i - 4 \notin HeadingPops

(* C3 amended: every heading line gets its own blank block, heading        *)
(* paragraph and trailing blank line, but only the first heading line of a *)
(* run of consecutive heading lines gets the page break (eight blank       *)
(* lines, new_page=True); each later line of the run gets one blank line   *)
(* with new_page=False.  The document holds one page break per run.        *)
C3_PageBreakPerHeadingRun ==
    /\ \A i \in HeadingPops :
          /\ i > 3
          /\ trace[i - 3] = AddEv("parse_heading",
                                  IF FirstOfRun(i) THEN [n \in 1..8 |-> <<>>] ELSE << <<>> >>,
                                  "normal", TRUE, TRUE, FirstOfRun(i))
          /\ trace[i - 2].op = "add_lines"
          /\ trace[i - 2].style = (IF LeadingHashes(PoppedLine(i)) = 1 THEN "h1" ELSE "h2")
          /\ ~trace[i - 2].new_page
          /\ trace[i - 1] = AddEv("parse_heading", << <<>> >>, "normal", TRUE, TRUE, FALSE)
    /\ Count(doc.document, "\\pagebb")
         = Cardinality({i \in HeadingPops : FirstOfRun(i)})

\* three consecutive chapter lines consumed: three headings, one page break
C3_Witness ==
    /\ Cardinality(PopsOfLevel(2)) = 3
    /\ Cardinality({i \in HeadingPops : FirstOfRun(i)}) = 1
    /\ Count(doc.document, "s2") = 3
    /\ Count(doc.document, "\\pagebb") = 1

----------------------------------------------------------------------------
\* the label the k-th heading line of a level starts with
Label(lvl, k) ==
    (IF lvl = 1 THEN <<"P", "a", "r", "t", " ">>
                ELSE <<"C", "h", "a", "p", "t", "e", "r", " ">>) \o str(k)

\* the name shown after the label, when names are shown
LabelRest(lvl, line) ==
    IF (lvl = 1 /\ name_parts) \/ (lvl = 2 /\ name_chapters)
    THEN <<":", " ">> \o strip(DropFirst(line, lvl))
    ELSE <<>>

\* this step consumes a line with exactly k leading '#'
Consumes(k) ==
    /\ lines # <<>>
    /\ lines' = Tail(lines)
    /\ LeadingHashes(lines[1]) = k

(* C4: part_count and chapter_count never decrease; each changes only in a *)
(* step that consumes a heading line of its level, and then by exactly 1;  *)
(* the k-th consumed level-1 line is labelled 'Part k' and the k-th        *)
(* consumed level-2 line 'Chapter k', whatever Part headings lie between.  *)
C4_Counters ==
    /\ [][/\ part_count' = part_count + (IF Consumes(1) THEN 1 ELSE 0)
          /\ chapter_count' = chapter_count + (IF Consumes(2) THEN 1 ELSE 0)]_vars
    /\ [](\A lvl \in {1, 2} : \A i \in PopsOfLevel(lvl) :
            LET k == Cardinality({j \in PopsOfLevel(lvl) : j <= i})
            IN  /\ i > 2
                /\ trace[i - 2].op = "add_lines"
                /\ trace[i - 2].ls = <<Label(lvl, k) \o LabelRest(lvl, PoppedLine(i))>>)

\* a chapter, a part and a second chapter were consumed: Chapter 2 follows Part 1
C4_Witness ==
    /\ part_count = 1
    /\ chapter_count = 2
    /\ \E i \in PopsOfLevel(1) : \E j, k \in PopsOfLevel(2) : j < i /\ i < k

----------------------------------------------------------------------------
(* heading_level called on one line of its own: lines holds the argument,  *)
(* level receives the result.                                              *)

LevelLines == UNION {[1..n -> {"#", "a"}] : n \in 0..MaxLineLen}

\* no RtfDocument constructed
NoDoc == [document |-> <<>>, font |-> ""]

InitLevel ==
    /\ pc = "heading_level"
    /\ lines \in {<<l>> : l \in LevelLines}
    /\ doc = NoDoc
    /\ monospace = FALSE
    /\ name_chapters = FALSE
    /\ name_parts = FALSE
    /\ part_count = 0
    /\ chapter_count = 0
    /\ new_division = FALSE
    /\ already_broken = FALSE
    /\ level = 0
    /\ hide = FALSE
    /\ normal_lines = <<>>
    /\ trace = <<>>
    /\ error = <<>>
    /\ sr_line = <<>>
    /\ sr_index = 0
    /\ sr_italics_on = FALSE
    /\ NoCaller

\* heading_level(line) returns
heading_level_return ==
    /\ pc = "heading_level"
    /\ heading_level(lines[1]) # IndexError
    /\ level' = heading_level(lines[1])
    /\ pc' = "returned"
    /\ UNCHANGED <<scan_vars, caller_vars, lines, doc, monospace, name_chapters, name_parts, part_count,
                   chapter_count, new_division, already_broken, hide, normal_lines,
                   trace, error>>

\* line[i] raises inside heading_level(line)
heading_level_raise ==
    /\ pc = "heading_level"
    /\ heading_level(lines[1]) = IndexError
    /\ pc' = "raised"
    /\ error' = StringIndexError
    /\ UNCHANGED <<scan_vars, caller_vars, lines, doc, monospace, name_chapters, name_parts, part_count,
                   chapter_count, new_division, already_broken, level, hide,
                   normal_lines, trace>>

NextLevel == heading_level_return \/ heading_level_raise

SpecLevel == InitLevel /\ [][NextLevel]_vars

\* the call has ended and returned min(k, 3) for the k leading '#' of its line
ReturnedCappedCount ==
    /\ pc = "returned"
    /\ level = Min({LeadingHashes(lines[1]), 3})

----------------------------------------------------------------------------
(* C9: for every line of length at least 4 with exactly k leading '#',     *)
(* heading_level returns min(k, 3): 0 when the first character is not      *)
(* '#', 3 for every k >= 3.                                                *)
C9_LevelIsCappedCount ==
    (pc # "heading_level" /\ Len(lines[1]) >= 4) => ReturnedCappedCount

\* a line of more than ScanWindow '#' was classified as level 3
C9_Witness ==
    /\ pc = "returned"
    /\ LeadingHashes(lines[1]) > ScanWindow
    /\ level = 3

----------------------------------------------------------------------------
(* C10: for every non-empty line of length 1 to 3, the bare markers '#',   *)
(* '##' and '###' included, heading_level returns the number of leading    *)
(* '#' (capped at 3) and does not raise.                                   *)
C10_ShortLineClassified ==
    (pc # "heading_level" /\ Len(lines[1]) \in 1..3) => ReturnedCappedCount

----------------------------------------------------------------------------
(* RtfDocument driven directly: construction, then add_lines calls with    *)
(* arbitrary arguments.  trace records the calls.                          *)

\* the line groups a caller passes: none, one line with a newline and a
\* tab, one line that is the builder's placeholder, two lines
BuilderGroups ==
    { <<>>,
      << <<"a", "\n", "\t">> >>,
      << <<"__HEAD__">> >>,
      << <<"a">>, <<"b">> >> }

\* style, indent, double_space: the defaults, a heading style, a centered
\* style, and the unindented single-spaced block
BuilderStyles ==
    {[style |-> st, indent |-> TRUE, double_space |-> TRUE] :
        st \in {"normal", "h1", "centered"}}
    \cup {[style |-> "normal", indent |-> FALSE, double_space |-> FALSE]}

InitBuilder ==
    /\ pc = "builder"
    /\ monospace \in BOOLEAN
    /\ doc = RtfDocument(monospace, None, None)
    /\ lines = <<>>
    /\ name_chapters = FALSE
    /\ name_parts = FALSE
    /\ part_count = 0
    /\ chapter_count = 0
    /\ new_division = FALSE
    /\ already_broken = FALSE
    /\ level = 0
    /\ hide = FALSE
    /\ normal_lines = <<>>
    /\ trace = <<>>
    /\ error = <<>>
    /\ sr_line = <<>>
    /\ sr_index = 0
    /\ sr_italics_on = FALSE
    /\ NoCaller

\* doc.add_lines(ls, style, indent, double_space, new_page) returns
builder_add_lines ==
    /\ pc = "builder"
    /\ Len(trace) < MaxCalls
    /\ \E ls \in BuilderGroups, a \in BuilderStyles, new_page \in BOOLEAN :
          /\ ~add_lines_raises(ls, new_page)
          /\ doc' = add_lines(doc, ls, a.style, a.indent, a.double_space, new_page)
          /\ trace' = Append(trace, AddEv("caller", ls, a.style, a.indent,
                                          a.double_space, new_page))
    /\ UNCHANGED <<scan_vars, caller_vars, pc, lines, monospace, name_chapters, name_parts, part_count,
                   chapter_count, new_division, already_broken, level, hide,
                   normal_lines, error>>

\* doc.add_lines([], ..., new_page=True): lines[0] raises after the style
\* was inserted
builder_add_lines_raise ==
    /\ pc = "builder"
    /\ Len(trace) < MaxCalls
    /\ \E ls \in BuilderGroups, a \in BuilderStyles, new_page \in BOOLEAN :
          /\ add_lines_raises(ls, new_page)
          /\ doc' = add_lines(doc, ls, a.style, a.indent, a.double_space, new_page)
          /\ trace' = Append(trace, AddEv("caller", ls, a.style, a.indent,
                                          a.double_space, new_page))
    /\ pc' = "raised"
    /\ error' = ListIndexError
    /\ UNCHANGED <<scan_vars, caller_vars, lines, monospace, name_chapters, name_parts, part_count,
                   chapter_count, new_division, already_broken, level, hide,
                   normal_lines>>

NextBuilder == builder_add_lines \/ builder_add_lines_raise

SpecBuilder == InitBuilder /\ [][NextBuilder]_vars

----------------------------------------------------------------------------
(* What appending in call order gives, written without the placeholder.    *)

\* the document as constructed, before and after its insertion point
FreshDocument == RtfDocument(monospace, None, None).document

InsertionPoint == Min({i \in DOMAIN FreshDocument : FreshDocument[i] = "__HEAD__"})

BeforeBody == SubSeq(FreshDocument, 1, InsertionPoint - 1)

AfterBody == DropFirst(FreshDocument, InsertionPoint)

\* one line as a paragraph on its own output line: its text kept apart from
\* the newline and tab translation
RECURSIVE TranslatedText(_)
TranslatedText(text) ==
    IF text = <<>> THEN <<>>
    ELSE (CASE Head(text) = "\n" -> <<" \\par ">>
            [] Head(text) = "\t" -> <<" \\tab ">>
            [] OTHER -> <<Head(text)>>) \o TranslatedText(Tail(text))

RECURSIVE Paragraphs(_)
Paragraphs(ls) ==
    IF ls = <<>> THEN <<>>
    ELSE <<"{">> \o TranslatedText(Head(ls)) \o <<" \\par}", "\n">> \o Paragraphs(Tail(ls))

\* the style text of a call, with or without the page break
StyleText(ev, page_break) ==
    replace(styling_of([document |-> <<>>, font |-> doc.font],
                       ev.style, ev.indent, ev.double_space),
            <<"__PAGEBR__">>, IF page_break THEN <<"\\pagebb">> ELSE <<>>) \o <<"\n">>

\* the output of one call
CallOutput(ev) ==
    IF ~ev.new_page THEN StyleText(ev, FALSE) \o Paragraphs(ev.ls)
    ELSE IF ev.ls = <<>> THEN StyleText(ev, TRUE)
    ELSE StyleText(ev, TRUE) \o Paragraphs(<<ev.ls[1]>>)
         \o StyleText(ev, FALSE) \o Paragraphs(Tail(ev.ls))

\* the outputs of the calls of the history, in call order
RECURSIVE CallOutputs(_)
CallOutputs(t) ==
    IF t = <<>> THEN <<>>
    ELSE (IF Head(t).op = "add_lines" THEN CallOutput(Head(t)) ELSE <<>>)
         \o CallOutputs(Tail(t))

----------------------------------------------------------------------------
(* C5: after construction and after any sequence of add_lines calls, with  *)
(* any line text (the placeholder token included), the document holds      *)
(* exactly one insertion-point placeholder, and every call's paragraphs    *)
(* appear exactly once, in call order, after all earlier output and before *)
(* the closing boilerplate, the text unaltered but for the newline and tab *)
(* translation, in the document and in dump().                             *)
C5_SingleGrowingPoint ==
    /\ Count(doc.document, "__HEAD__") = 1
    /\ doc.document = BeforeBody \o CallOutputs(trace) \o <<"__HEAD__">> \o AfterBody
    /\ dump(doc) = BeforeBody \o CallOutputs(trace) \o AfterBody

\* the same, for histories in which no line text holds the placeholder
NoPlaceholderInText ==
    \A i \in DOMAIN trace : \A j \in DOMAIN trace[i].ls :
        Count(trace[i].ls[j], "__HEAD__") = 0

C5_CleanTextGrowsInOrder == NoPlaceholderInText => C5_SingleGrowingPoint

----------------------------------------------------------------------------
(* md2smf.py: convert_to_smf.                                              *)

\* sep.join(ls)
RECURSIVE join(_, _)
join(sep, ls) ==
    IF ls = <<>> THEN <<>>
    ELSE IF Len(ls) = 1 THEN ls[1]
    ELSE ls[1] \o sep \o join(sep, Tail(ls))

\* s.split(sep) for a one-character sep
RECURSIVE split(_, _)
split(s, sep) ==
    LET hits == {i \in DOMAIN s : s[i] = sep}
    IN  IF hits = {} THEN <<s>>
        ELSE <<SubSeq(s, 1, Min(hits) - 1)>> \o split(DropFirst(s, Min(hits)), sep)

count_words(ls) ==
    LET body == SelectSeq(ls, LAMBDA i : i[1] \notin {"#", ">"})
    IN  Len(split(join(<<" ">>, body), " "))

\* round(number, ndigits) of an int with ndigits >= 0: the int itself
round(number, ndigits) == number

\* three digits of a thousands group
Group3(n) == <<Digit(n \div 100), Digit((n \div 10) % 10), Digit(n % 10)>>

\* f'{n:,}'
RECURSIVE format_commas(_)
format_commas(n) ==
    IF n < 1000 THEN str(n)
    ELSE format_commas(n \div 1000) \o <<",">> \o Group3(n % 1000)

\* the blank lines dropped, the comment lines kept
stripped_lines_keep_comments(md) ==
    LET stripped == [i \in DOMAIN md |-> strip(md[i])]
    IN  SelectSeq(stripped, LAMBDA l : l # <<>>)

\* [i.strip() for i in md_document.splitlines() if i.strip() and i.strip()[0] != '>']
stripped_lines(md) ==
    LET stripped == [i \in DOMAIN md |-> strip(md[i])]
    IN  SelectSeq(stripped, LAMBDA l : l # <<>> /\ l[1] # ">")

HEAD_LINE == <<"#", " ", "H", "E", "A", "D">>

SentinelError(line) ==
    <<"RuntimeError", "First line of document must be '# HEAD', not '">> \o line \o <<"'">>

MissingTitle == <<"RuntimeError", "Missing manuscript title.">>

MissingShortName == <<"RuntimeError", "Missing manuscript short name.">>

MissingAuthor == <<"RuntimeError", "Missing author name.">>

\* a validation that looks for the missing fields before the sentinel
validate_fields_first(input) ==
    IF Len(input) >= 2 /\ input[2] = <<"#">> THEN MissingTitle
    ELSE IF Len(input) >= 3 /\ input[3] = <<"#">> THEN MissingShortName
    ELSE IF Len(input) >= 4 /\ input[4] = <<"#">> THEN MissingAuthor
    ELSE IF input = <<>> THEN ListIndexError
    ELSE IF input[1] # HEAD_LINE THEN SentinelError(input[1])
    ELSE IF Len(input) < 4 THEN ListIndexError
    ELSE <<>>

\* lines 178-192: the exception the header checks end with, <<>> if none
validate(input) ==
    IF input = <<>> THEN ListIndexError
    ELSE IF input[1] # HEAD_LINE THEN SentinelError(input[1])
    ELSE IF Len(input) < 2 THEN ListIndexError
    ELSE IF input[2] = <<"#">> THEN MissingTitle
    ELSE IF Len(input) < 3 THEN ListIndexError
    ELSE IF input[3] = <<"#">> THEN MissingShortName
    ELSE IF Len(input) < 4 THEN ListIndexError
    ELSE IF input[4] = <<"#">> THEN MissingAuthor
    ELSE <<>>

\* author.split(' ')[-1]
last_name(author) == LET parts == split(author, " ") IN parts[Len(parts)]

\* f'{last} / {short_name} / _P#_'
header_text(author, short_name) ==
    last_name(author) \o <<" ", "/", " ">> \o short_name \o <<" ", "/", " ", "_P#_">>

\* f'about {round(word_count, ndigits):,} words'
about_words(word_count, ndigits) ==
    <<"a", "b", "o", "u", "t", " ">> \o format_commas(round(word_count, ndigits))
    \o <<" ", "w", "o", "r", "d", "s">>

\* lines 194-199: head is a new list read from the file, or FAKE_HEAD itself
head_of(fake_head, file) ==
    IF file # None THEN SubSeq(file, 1, Min({Len(file), Len(fake_head)})) ELSE fake_head

\* lines 206-207: the word count appended to head[0]
head_annotated(head, word_count) ==
    IF word_count < 20000
    THEN [head EXCEPT ![1] = head[1] \o <<"\t">> \o about_words(word_count, 2)]
    ELSE head

\* lines 208-209: for i in range(18 - len(head)): head.append('')
head_padded(head) == head \o [i \in 1..(18 - Len(head)) |-> <<>>]

\* what a finished call gave: the text returned, or the exception raised;
\* built tells whether the call had constructed its RtfDocument
Returned(text) == [ok |-> TRUE, out |-> text, err |-> <<>>, built |-> TRUE]

Raised(exc, built) == [ok |-> FALSE, out |-> <<>>, err |-> exc, built |-> built]

\* the lines of a manuscript header: the sentinel and the three fields
HeaderLines == 4

\* raw lines among the first HeaderLines of a manuscript: the sentinel, a
\* bare marker, a field of two words, an indented comment
ConvHeadLines == {HEAD_LINE, <<"#">>, <<"J", " ", "D">>, <<" ", ">", "c">>}

\* raw lines after them: a chapter heading, a section break, a body line,
\* a bare marker
ConvBodyLines ==
    {<<"#", "#", " ", "a">>, <<"#", "#", "#", "#">>, <<"J", " ", "D">>, <<"#">>}

\* the manuscripts: up to HeaderLines raw lines, or HeaderLines raw lines
\* and up to MaxBodyLines more
Manuscripts ==
    UNION {[1..n -> ConvHeadLines] : n \in 0..HeaderLines}
    \cup {h \o b : h \in [1..HeaderLines -> ConvHeadLines],
                   b \in UNION {[1..n -> ConvBodyLines] : n \in 1..MaxBodyLines}}

\* no head file, an empty one, one of one line, one of more lines than
\* FAKE_HEAD has
HeadFiles ==
    {None, <<>>, << <<"Me">> >>, [i \in 1..(Len(FAKE_HEAD_literal) + 1) |-> <<"Me">>]}

\* the module imported; a caller about to call convert_to_smf(md_document,
\* head_file) with the flags at their defaults
InitConvert ==
    /\ pc = "idle"
    /\ md_document \in Manuscripts
    /\ head_file \in HeadFiles
    /\ FAKE_HEAD = FAKE_HEAD_literal
    /\ results = <<>>
    /\ lines = <<>>
    /\ doc = NoDoc
    /\ monospace = FALSE
    /\ name_chapters = FALSE
    /\ name_parts = FALSE
    /\ part_count = 0
    /\ chapter_count = 0
    /\ new_division = FALSE
    /\ already_broken = FALSE
    /\ level = 0
    /\ hide = FALSE
    /\ normal_lines = <<>>
    /\ trace = <<>>
    /\ error = <<>>
    /\ sr_line = <<>>
    /\ sr_index = 0
    /\ sr_italics_on = FALSE

\* a call that ends in the header checks (lines 174-192)
convert_invalid ==
    /\ pc = "idle"
    /\ Len(results) < MaxRuns
    /\ validate(stripped_lines(md_document)) # <<>>
    /\ results' = Append(results, Raised(validate(stripped_lines(md_document)), FALSE))
    /\ UNCHANGED <<scan_vars, pc, lines, doc, monospace, name_chapters, name_parts, part_count,
                   chapter_count, new_division, already_broken, level, hide,
                   normal_lines, trace, error, FAKE_HEAD, md_document, head_file>>

\* a call that passes the checks, constructs the document and fails on
\* head[0] of an empty head (line 207)
convert_head_raise ==
    /\ pc = "idle"
    /\ Len(results) < MaxRuns
    /\ validate(stripped_lines(md_document)) = <<>>
    /\ LET ls == stripped_lines(md_document)
           head == head_of(FAKE_HEAD, head_file)
       IN  /\ count_words(ls) < 20000
           /\ head = <<>>
           /\ doc' = RtfDocument(monospace, header_text(ls[4], ls[3]), <<>>)
           /\ results' = Append(results, Raised(ListIndexError, TRUE))
    /\ UNCHANGED <<scan_vars, pc, lines, monospace, name_chapters, name_parts, part_count,
                   chapter_count, new_division, already_broken, level, hide,
                   normal_lines, trace, error, FAKE_HEAD, md_document, head_file>>

\* a call that passes the checks and writes the document head (lines
\* 174-216), up to the construction of MdParser (line 219)
convert_head ==
    /\ pc = "idle"
    /\ Len(results) < MaxRuns
    /\ validate(stripped_lines(md_document)) = <<>>
    /\ LET ls == stripped_lines(md_document)
           word_count == count_words(ls)
           title == ls[2]
           short_name == ls[3]
           author == ls[4]
           head0 == head_of(FAKE_HEAD, head_file)
           head == head_padded(head_annotated(head0, word_count))
           by_line == <<"B", "y", " ">> \o author
           count_block == [i \in 1..9 |-> <<>>] \o <<about_words(word_count, 3)>>
           last_block == IF word_count >= 20000 THEN count_block ELSE << <<>> >>
           last_style == IF word_count >= 20000 THEN "centered" ELSE "normal"
           d0 == RtfDocument(monospace, header_text(author, short_name), <<>>)
           d1 == add_lines(d0, head, "normal", FALSE, FALSE, FALSE)
           d2 == add_lines(d1, <<title>>, "title", TRUE, TRUE, FALSE)
           d3 == add_lines(d2, <<by_line>>, "subtitle", TRUE, TRUE, FALSE)
           d4 == add_lines(d3, last_block, last_style, TRUE, TRUE, FALSE)
       IN  /\ ~(word_count < 20000 /\ head0 = <<>>)
           /\ FAKE_HEAD' = IF head_file # None THEN FAKE_HEAD ELSE head
           /\ doc' = d4
           /\ trace' = <<AddEv("convert_to_smf", head, "normal", FALSE, FALSE, FALSE),
                         AddEv("convert_to_smf", <<title>>, "title", TRUE, TRUE, FALSE),
                         AddEv("convert_to_smf", <<by_line>>, "subtitle", TRUE, TRUE, FALSE),
                         AddEv("convert_to_smf", last_block, last_style, TRUE, TRUE, FALSE)>>
           /\ lines' = DropFirst(ls, 4)
    /\ part_count' = 0
    /\ chapter_count' = 0
    /\ error' = <<>>
    /\ pc' = "start"
    /\ UNCHANGED <<scan_vars, monospace, name_chapters, name_parts, new_division, already_broken,
                   level, hide, normal_lines, md_document, head_file, results>>

\* parse() returned: .dump() is what the call returns
convert_return ==
    /\ pc = "returned"
    /\ results' = Append(results, Returned(dump(doc)))
    /\ pc' = "idle"
    /\ UNCHANGED <<scan_vars, lines, doc, monospace, name_chapters, name_parts, part_count,
                   chapter_count, new_division, already_broken, level, hide,
                   normal_lines, trace, error, FAKE_HEAD, md_document, head_file>>

\* parse() raised: the exception leaves convert_to_smf
convert_raise ==
    /\ pc = "raised"
    /\ results' = Append(results, Raised(error, TRUE))
    /\ pc' = "idle"
    /\ UNCHANGED <<scan_vars, lines, doc, monospace, name_chapters, name_parts, part_count,
                   chapter_count, new_division, already_broken, level, hide,
                   normal_lines, trace, error, FAKE_HEAD, md_document, head_file>>

NextConvert ==
    \/ convert_invalid
    \/ convert_head_raise
    \/ convert_head
    \/ convert_return
    \/ convert_raise
    \/ Next

SpecConvert == InitConvert /\ [][NextConvert]_vars

\* every call finished so far ended as r
AllResults(r) == \A k \in DOMAIN results : results[k] = r

(***************************************************************************)
(* C6: convert_to_smf validates in a fixed order and fails on the first    *)
(* violation: a first remaining line other than '# HEAD' gives the         *)
(* sentinel error naming that line, whatever follows; otherwise a bare     *)
(* marker as next line gives missing-title; otherwise a bare marker after  *)
(* it gives missing-short-name; otherwise a bare marker after that gives   *)
(* missing-author; and in each case no RtfDocument has been constructed    *)
(* and nothing is returned.                                                *)
(***************************************************************************)
C6_ValidationOrder ==
    LET input == stripped_lines(md_document)
        sentinel == Len(input) >= 1 /\ input[1] = HEAD_LINE
        title == sentinel /\ Len(input) >= 2 /\ input[2] # <<"#">>
        short_name == title /\ Len(input) >= 3 /\ input[3] # <<"#">>
    IN  /\ (Len(input) >= 1 /\ input[1] # HEAD_LINE)
            => AllResults(Raised(SentinelError(input[1]), FALSE)) /\ doc = NoDoc
        /\ (sentinel /\ Len(input) >= 2 /\ input[2] = <<"#">>)
            => AllResults(Raised(MissingTitle, FALSE)) /\ doc = NoDoc
        /\ (title /\ Len(input) >= 3 /\ input[3] = <<"#">>)
            => AllResults(Raised(MissingShortName, FALSE)) /\ doc = NoDoc
        /\ (short_name /\ Len(input) >= 4 /\ input[4] = <<"#">>)
            => AllResults(Raised(MissingAuthor, FALSE)) /\ doc = NoDoc

\* a call on a manuscript with neither short name nor author has ended
C6_Witness ==
    LET input == stripped_lines(md_document)
    IN  /\ Len(input) >= 4
        /\ input[1] = HEAD_LINE
        /\ input[2] # <<"#">>
        /\ input[3] = <<"#">>
        /\ input[4] = <<"#">>
        /\ results # <<>>
        /\ results[1] = Raised(MissingShortName, FALSE)

(***************************************************************************)
(* C7: for an input that is empty after stripping, or that has the         *)
(* '# HEAD' sentinel followed by fewer than three lines, convert_to_smf    *)
(* fails with the descriptive sentinel or field-specific error, not with   *)
(* any other kind of failure.                                              *)
(***************************************************************************)
C7_MissingFieldReported ==
    LET input == stripped_lines(md_document)
    IN  (input = <<>> \/ (input[1] = HEAD_LINE /\ Len(input) < 4))
        => \A k \in DOMAIN results :
               ~results[k].ok /\ results[k].err[1] = "RuntimeError"

(***************************************************************************)
(* C8: no state survives from one conversion run to the next: successive   *)
(* calls of convert_to_smf with the same arguments and no head file give   *)
(* the same result, and FAKE_HEAD has the same 7 lines before and after    *)
(* every call.                                                             *)
(***************************************************************************)
C8_RunsIndependent ==
    head_file = None
    => /\ \A k \in DOMAIN results : results[k] = results[1]
       /\ pc = "idle" => FAKE_HEAD = FAKE_HEAD_literal

----------------------------------------------------------------------------
(* count_words called on a list of its own: lines holds the argument,      *)
(* results receives the value returned.                                    *)

\* trimmed non-blank lines: one word, two words with one space, with two
\* spaces, with a tab between them, a heading line, a comment line
CountLines ==
    {<<"a">>, <<"a", " ", "b">>, <<"a", " ", " ", "b">>, <<"a", "\t", "b">>,
     <<"#", "a">>, <<">", "a">>}

CountLists == UNION {[1..n -> CountLines] : n \in 0..MaxLines}

InitCount ==
    /\ pc = "count_words"
    /\ lines \in CountLists
    /\ doc = NoDoc
    /\ monospace = FALSE
    /\ name_chapters = FALSE
    /\ name_parts = FALSE
    /\ part_count = 0
    /\ chapter_count = 0
    /\ new_division = FALSE
    /\ already_broken = FALSE
    /\ level = 0
    /\ hide = FALSE
    /\ normal_lines = <<>>
    /\ trace = <<>>
    /\ error = <<>>
    /\ sr_line = <<>>
    /\ sr_index = 0
    /\ sr_italics_on = FALSE
    /\ NoCaller

\* count_words(lines) returns
count_words_return ==
    /\ pc = "count_words"
    /\ results' = <<Returned(count_words(lines))>>
    /\ pc' = "returned"
    /\ UNCHANGED <<scan_vars, lines, doc, monospace, name_chapters, name_parts, part_count,
                   chapter_count, new_division, already_broken, level, hide,
                   normal_lines, trace, error, FAKE_HEAD, md_document, head_file>>

NextCount == count_words_return

SpecCount == InitCount /\ [][NextCount]_vars

\* the lines count_words is to count: neither heading nor comment
CountedLines(ls) == SelectSeq(ls, LAMBDA l : l[1] \notin {"#", ">"})

\* the maximal runs of non-whitespace characters of a line
Tokens(line) ==
    Cardinality({i \in DOMAIN line :
                    /\ line[i] \notin Whitespace
                    /\ (i = 1 \/ line[i - 1] \in Whitespace)})

RECURSIVE TokensOf(_)
TokensOf(ls) == IF ls = <<>> THEN 0 ELSE Tokens(Head(ls)) + TokensOf(Tail(ls))

(***************************************************************************)
(* C11: count_words returns 0 whenever no line remains after excluding     *)
(* heading and comment lines (the list is empty or every line starts with  *)
(* '#' or '>').                                                            *)
(***************************************************************************)
C11_NoLinesCountZero ==
    (pc = "returned" /\ CountedLines(lines) = <<>>) => results[1].out = 0

(***************************************************************************)
(* C17: for every list of trimmed non-blank lines, count_words returns the *)
(* number of whitespace-separated tokens of the lines that start with      *)
(* neither '#' nor '>', also when a counted line has two or more           *)
(* consecutive spaces or a tab between words.                              *)
(***************************************************************************)
C17_CountsTokens ==
    (pc = "returned" /\ CountedLines(lines) # <<>>)
    => results[1].out = TokensOf(CountedLines(lines))

----------------------------------------------------------------------------
(* The word count in the head of the manuscript.                           *)

RECURSIVE Pow(_, _)
Pow(b, e) == IF e = 0 THEN 1 ELSE b * Pow(b, e - 1)

\* 10 ** places * int(number / 10 ** places), for number >= 0
trunc(number, places) == Pow(10, places) * (number \div Pow(10, places))

\* '\tabout N words' as the last of a line
EndsWithAbout(line, n) ==
    LET about == <<"\t", "a", "b", "o", "u", "t", " ">> \o format_commas(n)
                 \o <<" ", "w", "o", "r", "d", "s">>
    IN  /\ Len(line) >= Len(about)
        /\ SubSeq(line, Len(line) - Len(about) + 1, Len(line)) = about

(***************************************************************************)
(* C12: the word count in the 'about N words' annotation of the output is  *)
(* the computed word count rounded down to a multiple of 100: N is a       *)
(* multiple of 100 and N <= count < N + 100.                               *)
(***************************************************************************)
C12_ReportedRoundedDown ==
    trace # <<>>
    => LET count == count_words(stripped_lines(md_document))
       IN  \E n \in 0..count :
               /\ n = trunc(count, 2)
               /\ n % 100 = 0
               /\ n <= count /\ count < n + 100
               /\ EndsWithAbout(trace[1].ls[1], n)

----------------------------------------------------------------------------
(* smart_replace called on a line of its own: lines holds the argument,    *)
(* results receives the value returned.                                    *)

\* a letter, a space, the two quotes, an asterisk, a hyphen, a period
SmartChars == {"a", " ", "'", "\"", "*", "-", "."}

SmartLines == UNION {[1..n -> SmartChars] : n \in 0..MaxSmartLen}

InitSmart ==
    /\ pc = "smart_replace"
    /\ lines \in {<<l>> : l \in SmartLines}
    /\ doc = NoDoc
    /\ monospace = FALSE
    /\ name_chapters = FALSE
    /\ name_parts = FALSE
    /\ part_count = 0
    /\ chapter_count = 0
    /\ new_division = FALSE
    /\ already_broken = FALSE
    /\ level = 0
    /\ hide = FALSE
    /\ normal_lines = <<>>
    /\ trace = <<>>
    /\ error = <<>>
    /\ sr_line = <<>>
    /\ sr_index = 0
    /\ sr_italics_on = FALSE
    /\ NoCaller

\* smart_replace(line) returns
smart_replace_return ==
    /\ pc = "smart_replace"
    /\ results' = <<Returned(smart_replace(lines[1]))>>
    /\ pc' = "returned"
    /\ UNCHANGED <<scan_vars, lines, doc, monospace, name_chapters, name_parts, part_count,
                   chapter_count, new_division, already_broken, level, hide,
                   normal_lines, trace, error, FAKE_HEAD, md_document, head_file>>

NextSmart == smart_replace_return

SpecSmart == InitSmart /\ [][NextSmart]_vars

\* the k-th smallest member of a set of positions
Nth(S, k) == CHOOSE i \in S : Cardinality({j \in S : j <= i}) = k

\* where the italics markup stands in a text: \i followed by ' ' or '0'
ItalicsMarks(text) ==
    {i \in 1..(Len(text) - 2) :
        text[i] = "\\" /\ text[i + 1] = "i" /\ text[i + 2] \in {" ", "0"}}

IsItalicsOn(text, i) == SubSeq(text, i, i + 2) = ITALICS_ON

IsItalicsOff(text, i) ==
    i + 3 <= Len(text) /\ SubSeq(text, i, i + 3) = ITALICS_OFF

\* a line of letters, periods and asterisks with the asterisks replaced in
\* turn, and the run closed at the end
RECURSIVE Italicised(_, _)
Italicised(line, on) ==
    IF line = <<>> THEN IF on THEN ITALICS_OFF ELSE <<>>
    ELSE IF Head(line) = "*"
         THEN (IF on THEN ITALICS_OFF ELSE ITALICS_ON) \o Italicised(Tail(line), ~on)
         ELSE <<Head(line)>> \o Italicised(Tail(line), on)

(***************************************************************************)
(* C13: for every line, smart_replace emits italics-on and italics-off     *)
(* markup strictly alternating, starting with italics-on, one per asterisk *)
(* in input order; an even number of asterisks ends with italics off and   *)
(* no auto-closing markup, an odd number gets exactly one auto-closing     *)
(* italics-off appended at the end, so the output has equally many         *)
(* italics-on and italics-off markers.                                     *)
(***************************************************************************)
C13_ItalicsAlternate ==
    pc = "returned"
    => LET line == lines[1]
           out == results[1].out
           n == Count(line, "*")
           marks == ItalicsMarks(out)
       IN  /\ Count(out, "*") = 0
           /\ Cardinality(marks) = n + (n % 2)
           /\ \A k \in 1..Cardinality(marks) :
                  IF k % 2 = 1 THEN IsItalicsOn(out, Nth(marks, k))
                  ELSE IsItalicsOff(out, Nth(marks, k))
           /\ (n % 2 = 1) => Nth(marks, n + 1) = Len(out) - 3
           /\ (n % 2 = 0 /\ line # <<>> /\ line[Len(line)] # "*" /\ n > 0)
              => Nth(marks, n) < Len(out) - 3
           /\ (\A i \in DOMAIN line : line[i] \in {"a", ".", "*"})
              => out = Italicised(line, FALSE)

\* a line of three asterisks around text was returned with the run closed
C13_Witness ==
    /\ pc = "returned"
    /\ lines[1] = <<"*", "a", "*", "*">>
    /\ results[1].out = ITALICS_ON \o <<"a">> \o ITALICS_OFF \o ITALICS_ON \o ITALICS_OFF

\* where the quotes of a line stand
QuotePositions(line) == {i \in DOMAIN line : line[i] \in {"'", "\""}}

\* where the quote markup stands in a text: \l... or \r...
QuoteMarks(text) ==
    {i \in 1..(Len(text) - 1) : text[i] = "\\" /\ text[i + 1] \in {"l", "r"}}

\* the markup a quote at position i of line is to become
QuoteMarkup(line, i) ==
    LET opening == char_weight(line, i - 2) < char_weight(line, i)
    IN  IF line[i] = "'"
        THEN IF opening THEN SINGLE_LEFT_QUOTE ELSE SINGLE_RIGHT_QUOTE
        ELSE IF opening THEN DOUBLE_LEFT_QUOTE ELSE DOUBLE_RIGHT_QUOTE

(***************************************************************************)
(* C14: every quote character of a line is replaced by the opening form if *)
(* the weight of the character immediately before it in the line is        *)
(* strictly less than the weight of the character immediately after it,    *)
(* and by the closing form otherwise, also when the character before it is *)
(* itself a quote, an asterisk or the end of a double hyphen.              *)
(***************************************************************************)
C14_QuoteDirectionByWeights ==
    pc = "returned"
    => LET line == lines[1]
           out == results[1].out
           quotes == QuotePositions(line)
           marks == QuoteMarks(out)
       IN  /\ Cardinality(marks) = Cardinality(quotes)
           /\ \A k \in 1..Cardinality(quotes) :
                  LET i == Nth(quotes, k)
                      j == Nth(marks, k)
                      m == QuoteMarkup(line, i)
                  IN  /\ j + Len(m) - 1 <= Len(out)
                      /\ SubSeq(out, j, j + Len(m) - 1) = m

----------------------------------------------------------------------------
(* The page break of an add_lines call.                                    *)

\* the call a step of the direct caller has just made
LastCall == trace'[Len(trace')]

\* what the call leaves at the insertion point: with new_page the style
\* with the page break, the first paragraph, the same style without the
\* page break, the later paragraphs; without new_page the style without
\* the page break and the paragraphs
InsertedBy(ev) ==
    IF ev.new_page
    THEN StyleText(ev, TRUE) \o Paragraphs(<<ev.ls[1]>>)
         \o StyleText(ev, FALSE) \o Paragraphs(Tail(ev.ls))
    ELSE StyleText(ev, FALSE) \o Paragraphs(ev.ls)

\* the style with the page break is the style without it, "\pagebb" added
SameStyleButBreak(ev) ==
    /\ Count(StyleText(ev, TRUE), "\\pagebb") = 1
    /\ Count(StyleText(ev, FALSE), "\\pagebb") = 0
    /\ SelectSeq(StyleText(ev, TRUE), LAMBDA e : e # "\\pagebb") = StyleText(ev, FALSE)

(***************************************************************************)
(* C15: for every add_lines call with new_page=True and a non-empty list   *)
(* of lines, exactly the first paragraph of the call is preceded by a      *)
(* style carrying the page-break-before attribute and every later          *)
(* paragraph of the call by the same style without it; a call with         *)
(* new_page=False emits no page-break attribute at all.                    *)
(***************************************************************************)
C15_PageBreakOnFirstParagraph ==
    [][(Len(trace') = Len(trace) + 1 /\ LastCall.ls # <<>>)
       => /\ SameStyleButBreak(LastCall)
          /\ ~LastCall.new_page
             => Count(doc'.document, "\\pagebb") = Count(doc.document, "\\pagebb")
          /\ (\A j \in DOMAIN LastCall.ls : Count(LastCall.ls[j], "__HEAD__") = 0)
             => doc'.document =
                    replace(doc.document, <<"__HEAD__">>,
                            InsertedBy(LastCall) \o <<"__HEAD__">>)]_vars

\* a call with new_page=True and two lines was made on a fresh document:
\* one page break, before the first paragraph
C15_Witness ==
    /\ Len(trace) = 1
    /\ trace[1].new_page
    /\ Len(trace[1].ls) = 2
    /\ Count(doc.document, "\\pagebb") = 1
    /\ doc.document = BeforeBody \o StyleText(trace[1], TRUE)
                       \o Paragraphs(<<trace[1].ls[1]>>) \o StyleText(trace[1], FALSE)
                       \o Paragraphs(<<trace[1].ls[2]>>) \o <<"__HEAD__">> \o AfterBody

----------------------------------------------------------------------------
(* RtfDocument driven directly, add_lines and dump calls in any order.     *)
(* trace records the calls, results the text of each dump.                 *)

DumpEv ==
    [op |-> "dump", by |-> "caller", ls |-> <<>>, style |-> "", indent |-> TRUE,
     double_space |-> TRUE, new_page |-> FALSE]

\* the line lists of the add_lines calls: a line of text, a line that is
\* the placeholder token
DumpGroups == { << <<"a">> >>, << <<"__HEAD__">> >> }

AddCalls(t) == {i \in DOMAIN t : t[i].op = "add_lines"}

\* doc.add_lines(ls, new_page=new_page) returns
caller_add_lines ==
    /\ pc = "builder"
    /\ Cardinality(AddCalls(trace)) < MaxCalls
    /\ \E ls \in DumpGroups, new_page \in BOOLEAN :
          /\ doc' = add_lines(doc, ls, "normal", TRUE, TRUE, new_page)
          /\ trace' = Append(trace, AddEv("caller", ls, "normal", TRUE, TRUE, new_page))
    /\ UNCHANGED <<scan_vars, caller_vars, pc, lines, monospace, name_chapters, name_parts, part_count,
                   chapter_count, new_division, already_broken, level, hide,
                   normal_lines, error>>

\* a dump that keeps the text it returns as the document
caller_dump_consuming ==
    /\ pc = "builder"
    /\ Len(results) < MaxDumps
    /\ results' = Append(results, Returned(dump(doc)))
    /\ doc' = [doc EXCEPT !.document = dump(doc)]
    /\ trace' = Append(trace, DumpEv)
    /\ UNCHANGED <<scan_vars, pc, lines, monospace, name_chapters, name_parts, part_count,
                   chapter_count, new_division, already_broken, level, hide,
                   normal_lines, error, FAKE_HEAD, md_document, head_file>>

\* doc.dump() returns
caller_dump ==
    /\ pc = "builder"
    /\ Len(results) < MaxDumps
    /\ results' = Append(results, Returned(dump(doc)))
    /\ trace' = Append(trace, DumpEv)
    /\ UNCHANGED <<scan_vars, pc, lines, doc, monospace, name_chapters, name_parts, part_count,
                   chapter_count, new_division, already_broken, level, hide,
                   normal_lines, error, FAKE_HEAD, md_document, head_file>>

NextDump == caller_add_lines \/ caller_dump

SpecDump == InitBuilder /\ [][NextDump]_vars

\* the document the add_lines calls of a history build, its dumps left out
RECURSIVE Replay(_)
Replay(t) ==
    IF t = <<>> THEN RtfDocument(monospace, None, None)
    ELSE LET d == Replay(SubSeq(t, 1, Len(t) - 1))
             e == t[Len(t)]
         IN  IF e.op = "add_lines"
             THEN add_lines(d, e.ls, e.style, e.indent, e.double_space, e.new_page)
             ELSE d

DumpCalls == {i \in DOMAIN trace : trace[i].op = "dump"}

(***************************************************************************)
(* C16: dump() does not change the builder: after any sequence of          *)
(* add_lines calls two consecutive dump() calls return identical text      *)
(* with no insertion-point placeholder in it, and add_lines calls made     *)
(* after a dump() give the same later dump() result as if the earlier      *)
(* dump() had never been called.                                           *)
(***************************************************************************)
C16_DumpLeavesBuilder ==
    /\ doc = Replay(trace)
    /\ Len(results) = Cardinality(DumpCalls)
    /\ \A k \in DOMAIN results :
           /\ Count(results[k].out, "__HEAD__") = 0
           /\ results[k].out = dump(Replay(SubSeq(trace, 1, Nth(DumpCalls, k))))
           /\ (k > 1 /\ Nth(DumpCalls, k) = Nth(DumpCalls, k - 1) + 1)
              => results[k].out = results[k - 1].out

\* add_lines, dump, add_lines, dump: the second dump is the dump of the
\* two add_lines calls alone
C16_Witness ==
    /\ Len(trace) = 4
    /\ trace[1].op = "add_lines"
    /\ trace[2].op = "dump"
    /\ trace[3].op = "add_lines"
    /\ trace[4].op = "dump"
    /\ results[1].out # results[2].out
    /\ results[2].out = dump(Replay(<<trace[1], trace[3]>>))

----------------------------------------------------------------------------
(* convert_to_smf on manuscripts with a comment line.                      *)

COMMENT_LINE == <<" ", ">", "c">>

\* a header that passes the checks
PlainHeader == <<HEAD_LINE, <<"J", " ", "D">>, <<"J", " ", "D">>, <<"J", " ", "D">> >>

\* manuscripts without comment lines: one with no sentinel, and the header
\* followed by up to MaxBodyLines lines
PlainManuscripts ==
    { << <<"J", " ", "D">> >> }
    \cup {PlainHeader \o b : b \in UNION {[1..n -> ConvBodyLines] : n \in 0..MaxBodyLines}}

\* line inserted into md after its first k lines
InsertAt(md, k, line) == SubSeq(md, 1, k) \o <<line>> \o DropFirst(md, k)

\* the same, and each with one comment line put in at any place
CommentManuscripts ==
    PlainManuscripts
    \cup UNION {{InsertAt(m, k, COMMENT_LINE) : k \in 0..Len(m)} : m \in PlainManuscripts}

InitComments ==
    /\ pc = "idle"
    /\ md_document \in CommentManuscripts
    /\ head_file \in {None, <<>>}
    /\ FAKE_HEAD = FAKE_HEAD_literal
    /\ results = <<>>
    /\ lines = <<>>
    /\ doc = NoDoc
    /\ monospace = FALSE
    /\ name_chapters = FALSE
    /\ name_parts = FALSE
    /\ part_count = 0
    /\ chapter_count = 0
    /\ new_division = FALSE
    /\ already_broken = FALSE
    /\ level = 0
    /\ hide = FALSE
    /\ normal_lines = <<>>
    /\ trace = <<>>
    /\ error = <<>>
    /\ sr_line = <<>>
    /\ sr_index = 0
    /\ sr_italics_on = FALSE

SpecComments == InitComments /\ [][NextConvert]_vars

\* the lines of a manuscript whose first non-space character is not '>'
Uncommented(md) == SelectSeq(md, LAMBDA l : lstrip(l)[1] # ">")

\* sub stands somewhere in s
Contains(s, sub) ==
    \E i \in 1..(Len(s) - Len(sub) + 1) : SubSeq(s, i, i + Len(sub) - 1) = sub

\* the lines consumed so far, in order
PoppedLines == [k \in 1..Cardinality(Pops) |-> PoppedLine(Nth(Pops, k))]

(***************************************************************************)
(* C18: in convert_to_smf a comment line anywhere in the manuscript is     *)
(* never consumed by the parser: it gives no paragraph, is not taken as    *)
(* sentinel, title, short name or author, does not split a run of body     *)
(* lines into two Normal blocks, and between a chapter heading and a       *)
(* section-break line it does not clear the new-division flag (the section *)
(* break stays hidden).                                                    *)
(***************************************************************************)
C18_CommentsNeverParsed ==
    LET plain == Uncommented(md_document)
    IN  /\ \A i \in DOMAIN trace : \A j \in DOMAIN trace[i].ls :
               Count(trace[i].ls[j], ">") = 0
        /\ \A k \in DOMAIN results : Count(results[k].err, ">") = 0
        /\ trace # <<>>
           => /\ plain[1] = HEAD_LINE
              /\ trace[2].ls = <<plain[2]>>
              /\ Contains(doc.document, <<" ", "/", " ">> \o plain[3] \o <<" ", "/", " ">>)
              /\ trace[3].ls = <<(<<"B", "y", " ">> \o plain[4])>>
        /\ PoppedLines = SubSeq(DropFirst(plain, HeaderLines), 1, Cardinality(Pops))
        /\ \A k \in 1..(Cardinality(Pops) - 1) :
               (LeadingHashes(PoppedLines[k]) = 0 /\ LeadingHashes(PoppedLines[k + 1]) = 0)
               => Nth(Pops, k + 1) = Nth(Pops, k) + 1
        /\ \A i \in SectionPops : MarkerAt(i) <=> BodySince(i)

\* a finished run on two body lines with a comment line between them: one
\* Normal block of the two lines
C18_Witness ==
    /\ pc = "returned"
    /\ Len(md_document) = HeaderLines + 3
    /\ LeadingHashes(md_document[HeaderLines + 1]) = 0
    /\ md_document[HeaderLines + 2] = COMMENT_LINE
    /\ LeadingHashes(md_document[HeaderLines + 3]) = 0
    /\ trace[Len(trace)].op = "add_lines"
    /\ Len(trace[Len(trace)].ls) = 2

----------------------------------------------------------------------------
\* the heading paragraph of the heading line consumed at event i
HeadingParagraph(i) == trace[i - 2].ls

\* how many lines of the level of the line consumed at i were consumed up to i
Ordinal(i) ==
    Cardinality({j \in PopsOfLevel(LeadingHashes(PoppedLine(i))) : j <= i})

(***************************************************************************)
(* C19: the heading paragraph of a level-1 line is exactly 'Part N' when   *)
(* name_parts is false and 'Part N: <rest of the line after the marker,    *)
(* trimmed>' when it is true; of a level-2 line exactly 'Chapter N' or     *)
(* 'Chapter N: <name>' according to name_chapters; name_parts never        *)
(* changes a chapter heading and name_chapters never a part heading.       *)
(***************************************************************************)
C19_NamesByOwnFlag ==
    /\ \A i \in PopsOfLevel(1) :
           HeadingParagraph(i) =
               << <<"P", "a", "r", "t", " ">> \o str(Ordinal(i))
                  \o (IF name_parts
                      THEN <<":", " ">> \o strip(DropFirst(PoppedLine(i), 1))
                      ELSE <<>>) >>
    /\ \A i \in PopsOfLevel(2) :
           HeadingParagraph(i) =
               << <<"C", "h", "a", "p", "t", "e", "r", " ">> \o str(Ordinal(i))
                  \o (IF name_chapters
                      THEN <<":", " ">> \o strip(DropFirst(PoppedLine(i), 2))
                      ELSE <<>>) >>

\* with name_parts set and name_chapters not, a named part and a bare
\* chapter heading were written
C19_Witness ==
    /\ name_parts /\ ~name_chapters
    /\ \E i \in PopsOfLevel(1) :
           HeadingParagraph(i) = << <<"P", "a", "r", "t", " ", "1", ":", " ", "a">> >>
    /\ \E i \in PopsOfLevel(2) :
           HeadingParagraph(i) = << <<"C", "h", "a", "p", "t", "e", "r", " ", "1">> >>

----------------------------------------------------------------------------
\* the lines the sender block is read from: the head file, or FAKE_HEAD as
\* the module defines it
HeadSource == IF head_file # None THEN head_file ELSE FAKE_HEAD_literal

\* line starts with start
StartsWith(line, start) ==
    Len(line) >= Len(start) /\ SubSeq(line, 1, Len(start)) = start

(***************************************************************************)
(* C20: for every head file content (0 or more lines) and for the          *)
(* placeholder block, the sender block convert_to_smf passes to the        *)
(* builder has exactly 18 lines: at most the first 7 lines of the source,  *)
(* then only blank padding lines; building it never fails when the head    *)
(* file has fewer than 7 lines or is empty.                                *)
(***************************************************************************)
C20_HeadBlockEighteenLines ==
    \A k \in DOMAIN results :
        results[k].built
        => /\ trace # <<>>
           /\ LET head == trace[1].ls
                  kept == Min({7, Len(HeadSource)})
              IN  /\ Len(head) = 18
                  /\ \A i \in 1..kept :
                         IF i = 1 THEN StartsWith(head[i], HeadSource[i])
                         ELSE head[i] = HeadSource[i]
                  /\ \A i \in (kept + 1)..18 : head[i] = <<>>

----------------------------------------------------------------------------
\* how often sub stands in s
Occurrences(s, sub) ==
    Cardinality({i \in 1..(Len(s) - Len(sub) + 1) : SubSeq(s, i, i + Len(sub) - 1) = sub})

\* the start of a word-count annotation
ABOUT == <<"a", "b", "o", "u", "t", " ">>

\* 'about N words' for some N up to n
IsAnnotation(text, n) ==
    \E k \in 0..n : text = ABOUT \o format_commas(k) \o <<" ", "w", "o", "r", "d", "s">>

(***************************************************************************)
(* C21: every successful conversion output carries exactly one word-count  *)
(* annotation: below 20000 words it is appended, after a tab, to the first *)
(* line of the sender block and no trailing centered count line is added;  *)
(* from 20000 words on a centered block ending in the count line follows   *)
(* the subtitle and the first line of the sender block is left as it is.   *)
(***************************************************************************)
C21_OneAnnotation ==
    LET count == count_words(stripped_lines(md_document))
    IN  /\ \A k \in DOMAIN results :
               results[k].ok => Occurrences(results[k].out, ABOUT) = 1
        /\ trace # <<>>
           => LET first == trace[1].ls[1]
                  start == HeadSource[1] \o <<"\t">>
                  last == trace[4]
              IN  IF count < 20000
                  THEN /\ StartsWith(first, start)
                       /\ IsAnnotation(DropFirst(first, Len(start)), count)
                       /\ last.style = "normal" /\ last.ls = << <<>> >>
                  ELSE /\ first = HeadSource[1]
                       /\ last.style = "centered"
                       /\ IsAnnotation(last.ls[Len(last.ls)], count)

----------------------------------------------------------------------------
(* smart_replace step by step: sr_line, sr_index and sr_italics_on are its *)
(* locals, lines holds the argument, trace records the character each      *)
(* iteration of the while loop looks at, results receives the value        *)
(* returned.                                                               *)

\* lines 60-62: the double hyphens and the double spaces replaced
simple_substitutions(text) ==
    LET l1 == replace(text, <<"-", "-">>, EM_DASH)
        l2 == replace(l1, <<" ", " ">>, <<" ">>)
    IN  replace(l2, <<" ", " ">>, <<" ">>)

\* what one iteration puts in the place of line[index], <<>> for nothing
scan_token(text, at, on) ==
    LET c == text[at + 1]
        opening == char_weight(text, at - 1) < char_weight(text, at + 1)
    IN  IF c = "'" THEN IF opening THEN SINGLE_LEFT_QUOTE ELSE SINGLE_RIGHT_QUOTE
        ELSE IF c = "\"" THEN IF opening THEN DOUBLE_LEFT_QUOTE ELSE DOUBLE_RIGHT_QUOTE
        ELSE IF c = "*" THEN IF on THEN ITALICS_OFF ELSE ITALICS_ON
        ELSE <<>>

\* an index that moves on by one after a substitution
scan_advance_one(token) == 1

\* index += len(TOKEN)
scan_advance(token) == Len(token)

ExamineEv(c) ==
    [op |-> "examine", by |-> "smart_replace", ls |-> << <<c>> >>, style |-> "",
     indent |-> TRUE, double_space |-> TRUE, new_page |-> FALSE]

ScanLines == UNION {[1..n -> SmartChars] : n \in 0..MaxScanLen}

InitScan ==
    /\ pc = "smart_replace_called"
    /\ lines \in {<<l>> : l \in ScanLines}
    /\ doc = NoDoc
    /\ monospace = FALSE
    /\ name_chapters = FALSE
    /\ name_parts = FALSE
    /\ part_count = 0
    /\ chapter_count = 0
    /\ new_division = FALSE
    /\ already_broken = FALSE
    /\ level = 0
    /\ hide = FALSE
    /\ normal_lines = <<>>
    /\ trace = <<>>
    /\ error = <<>>
    /\ sr_line = <<>>
    /\ sr_index = 0
    /\ sr_italics_on = FALSE
    /\ NoCaller

\* lines 60-66: the simple substitutions, italics_on = False, index = 0
smart_replace_enter ==
    /\ pc = "smart_replace_called"
    /\ sr_line' = simple_substitutions(lines[1])
    /\ sr_index' = 0
    /\ sr_italics_on' = FALSE
    /\ pc' = "smart_scan"
    /\ UNCHANGED <<caller_vars, lines, doc, monospace, name_chapters, name_parts,
                   part_count, chapter_count, new_division, already_broken, level,
                   hide, normal_lines, trace, error>>

\* one iteration of the while loop (lines 67-91)
smart_scan_step ==
    /\ pc = "smart_scan"
    /\ sr_index < Len(sr_line)
    /\ LET token == scan_token(sr_line, sr_index, sr_italics_on)
       IN  /\ sr_line' = IF token # <<>> THEN substitute(sr_line, sr_index, token)
                                         ELSE sr_line
           /\ sr_index' = sr_index + (IF token # <<>> THEN scan_advance(token) ELSE 1)
           /\ sr_italics_on' = IF sr_line[sr_index + 1] = "*" THEN ~sr_italics_on
                                                              ELSE sr_italics_on
    /\ trace' = Append(trace, ExamineEv(sr_line[sr_index + 1]))
    /\ UNCHANGED <<caller_vars, pc, lines, doc, monospace, name_chapters, name_parts,
                   part_count, chapter_count, new_division, already_broken, level,
                   hide, normal_lines, error>>

\* the while test fails: the open italics closed, the line returned
\* (lines 92-94)
smart_scan_exit ==
    /\ pc = "smart_scan"
    /\ ~(sr_index < Len(sr_line))
    /\ sr_line' = IF sr_italics_on THEN sr_line \o ITALICS_OFF ELSE sr_line
    /\ results' = <<Returned(sr_line')>>
    /\ pc' = "returned"
    /\ UNCHANGED <<sr_index, sr_italics_on, lines, doc, monospace, name_chapters,
                   name_parts, part_count, chapter_count, new_division,
                   already_broken, level, hide, normal_lines, trace, error,
                   FAKE_HEAD, md_document, head_file>>

NextScan == smart_replace_enter \/ smart_scan_step \/ smart_scan_exit

\* the loop is sequential code: a step that can be taken is taken
SpecScan == InitScan /\ [][NextScan]_vars /\ WF_vars(NextScan)

\* the characters the iterations looked at, in order
Examined == [k \in DOMAIN trace |-> trace[k].ls[1][1]]

\* the line as the scan starts on it
ScanStart == simple_substitutions(lines[1])

\* the distance between the scan index and the end of the line
Distance == Len(sr_line) - sr_index

(***************************************************************************)
(* C22: for every finite line the scan loop of smart_replace terminates:   *)
(* in each iteration the distance between the scan index and the end of    *)
(* the (growing) line decreases by exactly 1, every character of the line  *)
(* as it stood after the hyphen and space substitutions is examined        *)
(* exactly once, and no character of an inserted replacement token is ever *)
(* re-examined or re-substituted.                                          *)
(***************************************************************************)
C22_ScanTerminates ==
    /\ [][(pc = "smart_scan" /\ pc' = "smart_scan")
          => /\ Distance' = Distance - 1
             /\ Distance' >= 0
             /\ SubSeq(sr_line', 1, sr_index) = SubSeq(sr_line, 1, sr_index)]_vars
    /\ [](pc = "smart_scan"
          => /\ Examined = SubSeq(ScanStart, 1, Len(trace))
             /\ DropFirst(sr_line, sr_index) = DropFirst(ScanStart, Len(trace)))
    /\ [](pc = "returned"
          => /\ Examined = ScanStart
             /\ results[1].out = smart_replace(lines[1]))
    /\ <>(pc = "returned")

\* the scan of --' has ended: the nine characters left by the substitution
\* of the double hyphen were looked at, the line has grown beyond them
C22_Witness ==
    /\ pc = "returned"
    /\ lines[1] = <<"-", "-", "'">>
    /\ Len(trace) = Len(EM_DASH) + 1
    /\ sr_line = EM_DASH \o SINGLE_RIGHT_QUOTE

====
